---- MODULE Spec2Model ----
(***************************************************************************)
(* A model of the compositing and caching engine of zunda/movis:           *)
(* Composition (src/zunda/layer/composition.py), the Layer protocol        *)
(* (src/movis/layer/protocol.py) and concatenate.                          *)
(*                                                                         *)
(* Times are integers.  A pixel buffer is a sequence of rows, a row a      *)
(* sequence of pixels, a pixel a colour number; colour 0 is the fully      *)
(* transparent pixel of np.zeros.  A Hashable key is a tuple whose first   *)
(* element is a tag string.  Python's None is <<"None">> as a key and the  *)
(* empty sequence as an image.                                             *)
(*                                                                         *)
(* zunda.layer.component (Component), zunda.transform (Transform) and      *)
(* zunda.imgproc (resize, alpha_composite) are imported by composition.py  *)
(* but are not among the source files: they are modelled from spec.md.     *)
(* Transform values are modelled as constant in time.                      *)
(***************************************************************************)
EXTENDS Integers, Sequences, FiniteSets, TLC

(***************************************************************************)
(* Bounds of the model.                                                    *)
(***************************************************************************)
\* Spec: at most MaxLayers components per composition, MaxOps calls per run,
\* render times 0..MaxTime.
MaxLayers == 2
MaxOps == 4
MaxTime == 2

(***************************************************************************)
(* Program constants.                                                      *)
(***************************************************************************)
\* LRUCache(maxsize=128)
maxsize == 128
\* BasicLayer.duration: "an indefinitely large duration"
BasicLayerDuration == 1000000

CompIds == {"A", "B", "main"}

VARIABLES
    layers,          \* [CompIds -> Seq(Component)]: self.layers
    _name_to_layer,  \* [CompIds -> function name -> Component]: self._name_to_layer
    size,            \* [CompIds -> <<w, h>>]: self.size
    _duration,       \* [CompIds -> Int]: self._duration
    cache,           \* [CompIds -> Seq([key, value])], least recently used first
    made,            \* the Composition objects constructed so far
    last,            \* the last call: its arguments, outcome and trace
    nops,            \* the number of calls made, where a specification counts them
    seen, used, evicted,   \* history, for the properties
    hi,              \* the highest time rendered so far
    _onnx_file,      \* RobustVideoMatting: the network of self._onnx_file
    _recurrent_state,   \* RobustVideoMatting: self._recurrent_state
    _state,          \* RobustVideoMatting: self._state
    _session,        \* RobustVideoMatting: self._session, None until the first call
    returned         \* history: the calls of the effect, [frame, time, key, dst]

\* The fields of the RobustVideoMatting effect
matting == <<_onnx_file, _recurrent_state, _state, _session, returned>>

vars == <<layers, _name_to_layer, size, _duration, cache, made, last, nops,
          seen, used, evicted, hi, _onnx_file, _recurrent_state, _state, _session,
          returned>>

None == <<"None">>
NoImage == <<>>
\* An optional argument is <<>> (not given) or <<value>>.
NoArg == <<>>

\* [np.zeros([1, 1, 1, 1], dtype=np.float16)] * 4
ZeroState == 0

\* No RobustVideoMatting has been constructed.
NoMatting ==
    /\ _onnx_file = None
    /\ _recurrent_state = TRUE
    /\ _state = ZeroState
    /\ _session = None
    /\ returned = {}


(***************************************************************************)
(* Pixel buffers (numpy arrays of shape (H, W)), by value.                 *)
(***************************************************************************)
Height(image) == Len(image)
Width(image) == IF Len(image) = 0 THEN 0 ELSE Len(image[1])

\* np.zeros((self.size[1], self.size[0], 4), dtype=np.uint8)
zeros(sz) == [r \in 1..sz[2] |-> [c \in 1..sz[1] |-> 0]]

\* An image of one colour, as a test layer returns it.
Solid(colour, w, h) == [r \in 1..h |-> [c \in 1..w |-> colour]]

\* zunda.imgproc.resize(image, scale): nearest-neighbour resampling to
\* round(w * sx) x round(h * sy) pixels.
resize(image, scale) ==
    LET h == Height(image)
        w == Width(image)
        nh == h * scale[2]
        nw == w * scale[1]
    IN  [r \in 1..nh |-> [c \in 1..nw |->
            image[((r - 1) * h) \div nh + 1][((c - 1) * w) \div nw + 1]]]

\* zunda.imgproc.alpha_composite(bg, fg, position, opacity, blending_mode) for
\* BlendingMode.NORMAL, pixels either opaque or fully transparent, opacity 0 or 1:
\* the straight-alpha "over" operator, clipped to the background's extent.
alpha_composite(bg_image, fg_image, position, opacity, blending_mode) ==
    [r \in 1..Height(bg_image) |-> [c \in 1..Width(bg_image) |->
        LET fx == (c - 1) - position[1]
            fy == (r - 1) - position[2]
        IN  IF /\ opacity = 1
               /\ 0 <= fx /\ fx < Width(fg_image)
               /\ 0 <= fy /\ fy < Height(fg_image)
               /\ fg_image[fy + 1][fx + 1] # 0
            THEN fg_image[fy + 1][fx + 1]
            ELSE bg_image[r][c]]]

(***************************************************************************)
(* The cache: cachetools.LRUCache(maxsize), a sequence of entries ordered  *)
(* from the least to the most recently used.                               *)
(***************************************************************************)
Remove(seq, i) == SubSeq(seq, 1, i - 1) \o SubSeq(seq, i + 1, Len(seq))

CacheIndex(ch, key) == CHOOSE i \in 1..Len(ch) : ch[i].key = key

\* key in self.cache: does not change the order of use
CacheContains(ch, key) == \E i \in 1..Len(ch) : ch[i].key = key

\* A cache read that leaves the order of use as it is (first in, first out).
CacheGetItemInPlace(ch, key) ==
    [cache |-> ch, value |-> ch[CacheIndex(ch, key)].value]

\* self.cache[key]: the entry becomes the most recently used
CacheGetItem(ch, key) ==
    LET i == CacheIndex(ch, key)
    IN  [cache |-> Append(Remove(ch, i), ch[i]), value |-> ch[i].value]

\* A cache write that never evicts.
CacheSetItemUnbounded(ch, key, value) ==
    IF CacheContains(ch, key)
    THEN Append(Remove(ch, CacheIndex(ch, key)), [key |-> key, value |-> value])
    ELSE Append(ch, [key |-> key, value |-> value])

\* self.cache[key] = value: a new key first evicts least recently used entries
\* while the cache is full; the entry becomes the most recently used
CacheSetItem(ch, key, value) ==
    IF CacheContains(ch, key)
    THEN Append(Remove(ch, CacheIndex(ch, key)), [key |-> key, value |-> value])
    ELSE Append(IF Len(ch) >= maxsize THEN Tail(ch) ELSE ch,
                [key |-> key, value |-> value])

\* The keys CacheSetItem evicts.
CacheEvicted(ch, key) ==
    IF ~CacheContains(ch, key) /\ Len(ch) >= maxsize THEN <<ch[1].key>> ELSE <<>>

(***************************************************************************)
(* Layers.  A layer is a Composition (an element of CompIds) or a leaf      *)
(* layer: "still" and "still2", two still images that report the same      *)
(* constant key and a duration of 3; "clip", which keeps BasicLayer's       *)
(* defaults (duration 1e6, get_key(time) = time) and renders a different   *)
(* image at every time; "faulty", a BasicLayer like "clip" whose __call__   *)
(* raises RuntimeError at the even times; "bare", an object that has       *)
(* __call__ only (the Layer protocol) and does not derive from BasicLayer.  *)
(***************************************************************************)
LeafLayers == {"still", "still2", "clip", "faulty", "bare"}

\* The layer has the attribute duration.
HasDuration(layer) == layer # "bare"

\* Layer.__call__(time) raises
LeafRaises(layer, time) == layer = "faulty" /\ time % 2 = 0

\* Layer.__call__(time) of a leaf layer
LeafCall(layer, time) ==
    CASE layer = "still" -> Solid(1, 2, 2)
      [] layer = "still2" -> Solid(2, 2, 2)
      [] layer = "faulty" -> Solid(3, 2, 2)
      [] layer = "bare" -> Solid(20 + time, 2, 2)
      [] OTHER -> Solid(10 + time, 2, 2)

\* layer.duration
LayerDuration(layer) ==
    IF layer \in CompIds THEN _duration[layer]
    ELSE IF layer \in {"clip", "faulty"} THEN BasicLayerDuration ELSE 3

\* Transform(position=(self.size[0] / 2, self.size[1] / 2)): sizes are even
DefaultTransform(sz) ==
    [position |-> <<sz[1] \div 2, sz[2] \div 2>>, anchor_point |-> <<0, 0>>,
     scale |-> <<1, 1>>, opacity |-> 1]

\* Transform.get_current_value(layer_time)
get_current_value(transform, layer_time) == transform

\* Component(name, layer, transform, offset=, start_time=, end_time=, visible=,
\* blending_mode=)
Component(name, layer, transform, offset, start_time, end_time, visible, blending_mode) ==
    [name |-> name, layer |-> layer, transform |-> transform, offset |-> offset,
     start_time |-> start_time, end_time |-> end_time, visible |-> visible,
     blending_mode |-> blending_mode]

RECURSIVE get_key(_, _)

\* layer.get_key(time); the key of a layer without get_key is the time
LayerGetKey(layer, time) ==
    IF layer \in CompIds THEN get_key(layer, time)
    ELSE IF layer \in {"clip", "faulty", "bare"} THEN <<"k", time>> ELSE <<"k", 0>>

\* Component.get_key(layer_time): the layer's key at that local time
ComponentGetKey(component, layer_time) == LayerGetKey(component.layer, layer_time)

\* A get_key that asks every component for its key, inside its window or not.
GetKeyAnyTime(c, time) ==
    <<"COMPOSITION">> \o
    [i \in 1..Len(layers[c]) |->
        ComponentGetKey(layers[c][i], time - layers[c][i].offset)]

\* Composition.get_key
get_key(c, time) ==
    <<"COMPOSITION">> \o
    [i \in 1..Len(layers[c]) |->
        LET component == layers[c][i]
            layer_time == time - component.offset
        IN  IF layer_time < component.start_time \/ component.end_time <= layer_time
            THEN None
            ELSE ComponentGetKey(component, layer_time)]

(***************************************************************************)
(* Rendering.  st = [cache, calls, log, raised] is threaded through one     *)
(* call: cache is the caches of all compositions, calls the layers         *)
(* rendered (<<layer, time>>, in order), log the cache accesses and        *)
(* resizes (<<op, composition, key>>, op one of "in", "get", "set",        *)
(* "evict", "resize"), raised the exception in flight ("none" if none).    *)
(* Every operator returns [st, image]; there is no image when st.raised is *)
(* an exception.                                                           *)
(***************************************************************************)
Called(st, layer, time) == [st EXCEPT !.calls = Append(@, <<layer, time>>)]

Logged(st, op, c, key) == [st EXCEPT !.log = Append(@, <<op, c, key>>)]

\* key in self.cache
StContains(st, c, key) == CacheContains(st.cache[c], key)

\* self.cache[key]
StGetItem(st, c, key) ==
    LET got == CacheGetItem(st.cache[c], key)
    IN  [st |-> [Logged(Logged(st, "in", c, key), "get", c, key)
                    EXCEPT !.cache[c] = got.cache],
         image |-> got.value]

\* self.cache[key] = value, after a failed membership test
StSetItem(st, c, key, value) ==
    LET ch == st.cache[c]
        st1 == Logged(st, "set", c, key)
        st2 == [st1 EXCEPT !.log = @ \o [i \in 1..Len(CacheEvicted(ch, key)) |->
                                            <<"evict", c, CacheEvicted(ch, key)[i]>>]]
    IN  [st2 EXCEPT !.cache[c] = CacheSetItem(ch, key, value)]

\* scale == 1.0 where scale is the pair (sx, sy): a tuple never equals a float
ScaleEqualsOne(scale) == FALSE

\* layer(time) of a leaf layer
LeafLayerCall(layer, time, st) ==
    IF LeafRaises(layer, time)
    THEN [st |-> [Called(st, layer, time) EXCEPT !.raised = "RuntimeError"],
          image |-> NoImage]
    ELSE [st |-> Called(st, layer, time), image |-> LeafCall(layer, time)]

\* An exception is in flight.
Failed(st) == st.raised # "none"

\* Component.__call__(layer_time): nothing when the component is not visible,
\* else rendered, the result of layer(layer_time)
ComponentCall(component, st, rendered) ==
    IF ~component.visible THEN [st |-> st, image |-> NoImage] ELSE rendered

\* A _get_or_resize that does not look the image up: it always resizes and stores.
GetOrResizeAlways(c, component, layer_time, image, scale, st) ==
    LET layer_state == ComponentGetKey(component, layer_time)
        key == <<"LAYER", component.name, layer_state, scale>>
        resized_image == resize(image, scale)
    IN  [st |-> StSetItem(Logged(Logged(st, "in", c, key), "resize", c, key),
                          c, key, resized_image),
         image |-> resized_image]

\* Composition._get_or_resize
_get_or_resize(c, component, layer_time, image, scale, st) ==
    IF ScaleEqualsOne(scale)
    THEN [st |-> st, image |-> image]
    ELSE LET layer_state == ComponentGetKey(component, layer_time)
             key == <<"LAYER", component.name, layer_state, scale>>
         IN  IF StContains(st, c, key)
             THEN StGetItem(st, c, key)
             ELSE LET resized_image == resize(image, scale)
                  IN  [st |-> StSetItem(Logged(Logged(st, "in", c, key),
                                               "resize", c, key),
                                        c, key, resized_image),
                       image |-> resized_image]

\* Composition.composite from the return of component(layer_time) on, where fg
\* is the outcome of that call: an exception it raised propagates
Paint(c, bg_image, component, layer_time, fg) ==
    LET fg_image == fg.image
    IN  IF Failed(fg.st)
        THEN [st |-> fg.st, image |-> NoImage]
        ELSE IF fg_image = NoImage
        THEN [st |-> fg.st, image |-> bg_image]
        ELSE
        LET h == Height(fg_image)
            w == Width(fg_image)
            p == get_current_value(component.transform, layer_time)
        IN  IF w * p.scale[1] = 0 \/ h * p.scale[2] = 0
            THEN [st |-> fg.st, image |-> bg_image]
            ELSE
            LET rs == _get_or_resize(c, component, layer_time, fg_image,
                                     p.scale, fg.st)
                x == p.position[1] + (p.anchor_point[1] - w \div 2) * p.scale[1]
                y == p.position[2] + (p.anchor_point[2] - h \div 2) * p.scale[2]
            IN  [st |-> rs.st,
                 image |-> alpha_composite(bg_image, rs.image, <<x, y>>,
                                           p.opacity, component.blending_mode)]

\* Composition.__call__ after the loop, where r is the outcome of the loop:
\*     self.cache[key] = frame
\*     return frame
\* which an exception raised in the loop does not reach
Stored(c, key, r) ==
    IF Failed(r.st) THEN r
    ELSE [st |-> StSetItem(r.st, c, key, r.image), image |-> r.image]

(***************************************************************************)
(* Compositions nest two deep: the layers of a Composition that is itself  *)
(* a layer are leaf layers.  NestedComposite, NestedCompositeAll and       *)
(* NestedCall are composite and __call__ of such a nested Composition.     *)
(***************************************************************************)
NestedComposite(c, bg_image, component, time, st) ==
    LET layer_time == time - component.offset
    IN  IF layer_time < component.start_time \/ component.end_time <= layer_time
        THEN [st |-> st, image |-> bg_image]
        ELSE Paint(c, bg_image, component, layer_time,
                   ComponentCall(component, st,
                                 LeafLayerCall(component.layer, layer_time, st)))

\* One turn of the loop of __call__, where r is the outcome of the turns before
\* it: an exception ends the loop
NestedCompositeNext(c, r, component, time) ==
    IF Failed(r.st) THEN r ELSE NestedComposite(c, r.image, component, time, r.st)

NestedCompositeAll(c, time, st) ==
    LET loop[i \in 0..Len(layers[c])] ==
            IF i = 0
            THEN [st |-> st, image |-> zeros(size[c])]
            ELSE NestedCompositeNext(c, loop[i - 1], layers[c][i], time)
    IN  loop[Len(layers[c])]

NestedCall(c, time, st) ==
    LET key == get_key(c, time)
    IN  IF StContains(st, c, key)
        THEN StGetItem(st, c, key)
        ELSE Stored(c, key, NestedCompositeAll(c, time, Logged(st, "in", c, key)))

\* layer(time): a leaf layer or a nested Composition
LayerCall(layer, time, st) ==
    IF layer \in CompIds
    THEN NestedCall(layer, time, Called(st, layer, time))
    ELSE LeafLayerCall(layer, time, st)

\* A composite that takes every time to be inside the component's window.
CompositeAnyTime(c, bg_image, component, time, st) ==
    LET layer_time == time - component.offset
    IN  Paint(c, bg_image, component, layer_time,
              ComponentCall(component, st,
                            LayerCall(component.layer, layer_time, st)))

\* Composition.composite
composite(c, bg_image, component, time, st) ==
    LET layer_time == time - component.offset
    IN  IF layer_time < component.start_time \/ component.end_time <= layer_time
        THEN [st |-> st, image |-> bg_image]
        ELSE Paint(c, bg_image, component, layer_time,
                   ComponentCall(component, st,
                                 LayerCall(component.layer, layer_time, st)))

\* A turn of the loop that goes on to the next component after an exception.
CompositeNextKeepsGoing(c, r, component, time) ==
    composite(c, r.image, component, time, r.st)

\* One turn of the loop of __call__, where r is the outcome of the turns before
\* it: an exception ends the loop
CompositeNext(c, r, component, time) ==
    IF Failed(r.st) THEN r ELSE composite(c, r.image, component, time, r.st)

\* A compositing loop that takes the components from the last to the first.
CompositeAllReversed(c, time, st) ==
    LET n == Len(layers[c])
        loop[i \in 0..n] ==
            IF i = 0
            THEN [st |-> st, image |-> zeros(size[c])]
            ELSE CompositeNext(c, loop[i - 1], layers[c][n + 1 - i], time)
    IN  loop[n]

\* Composition.__call__ on a miss: the frame composited from the layers
\*     frame = np.zeros(...)
\*     for component in self.layers:
\*         frame = self.composite(frame, component, time)
CompositeAll(c, time, st) ==
    LET loop[i \in 0..Len(layers[c])] ==
            IF i = 0
            THEN [st |-> st, image |-> zeros(size[c])]
            ELSE CompositeNext(c, loop[i - 1], layers[c][i], time)
    IN  loop[Len(layers[c])]

\* A render that does not look the frame up: it always composites and stores.
CallAlwaysComposites(c, time, st) ==
    LET key == get_key(c, time)
        r == CompositeAll(c, time, Logged(st, "in", c, key))
    IN  [st |-> StSetItem(r.st, c, key, r.image), image |-> r.image]

\* A render that stores a blank frame in place of the frame it returns.
CallStoresBlank(c, time, st) ==
    LET key == get_key(c, time)
    IN  IF StContains(st, c, key)
        THEN StGetItem(st, c, key)
        ELSE LET r == CompositeAll(c, time, Logged(st, "in", c, key))
             IN  [st |-> StSetItem(r.st, c, key, zeros(size[c])), image |-> r.image]

\* Composition.__call__
__call__(c, time, st) ==
    LET key == get_key(c, time)
    IN  IF StContains(st, c, key)
        THEN StGetItem(st, c, key)
        ELSE Stored(c, key, CompositeAll(c, time, Logged(st, "in", c, key)))

(***************************************************************************)
(* The calls.  Every action is one call of a public method or function;    *)
(* last records it: op, comp (the Composition called), args, raised (the   *)
(* exception, or "none"), ret (the value returned), calls and log (the     *)
(* trace of the call, as in st), again (whether the call before it was the *)
(* same call with the same arguments).                                     *)
(***************************************************************************)
EmptyIndex == [n \in {} |-> None]

NoTrace == [cache |-> cache, calls |-> <<>>, log |-> <<>>, raised |-> "none"]

Returned(op, c, args, ret, st) ==
    [op |-> op, comp |-> c, args |-> args, raised |-> "none", ret |-> ret,
     calls |-> st.calls, log |-> st.log,
     again |-> (last.op = op /\ last.comp = c /\ last.args = args)]

\* A call that raised while rendering: its trace is kept.
RaisedIn(op, c, args, st) ==
    [op |-> op, comp |-> c, args |-> args, raised |-> st.raised, ret |-> NoArg,
     calls |-> st.calls, log |-> st.log,
     again |-> (last.op = op /\ last.comp = c /\ last.args = args)]

Raised(op, c, args, exception) ==
    [op |-> op, comp |-> c, args |-> args, raised |-> exception, ret |-> NoArg,
     calls |-> <<>>, log |-> <<>>,
     again |-> (last.op = op /\ last.comp = c /\ last.args = args)]

\* f"layer_{len(self.layers)}"
DefaultName(n) == "layer_" \o ToString(n)

\* component == name, for a Component and a str: Component has no equality with
\* strings, so the comparison is Python's default (identity) and is never true
ComponentEqualsName(component, name) == FALSE

\* name in self.layers, where self.layers is the list of Components
NameInLayers(name, ls) == \E i \in 1..Len(ls) : ComponentEqualsName(ls[i], name)

\* Composition.add_layer on a Composition with component list ls, name index
\* idx and size sz: [raised, layers, index, ret]
add_layer(ls, idx, sz, layer, name, transform, offset, start_time, end_time, visible) ==
    LET name1 == IF name = NoArg THEN DefaultName(Len(ls)) ELSE name[1]
    IN  IF NameInLayers(name1, ls)
        THEN [raised |-> "KeyError", layers |-> ls, index |-> idx, ret |-> NoArg]
        ELSE IF end_time = NoArg /\ ~HasDuration(layer)
        \* layer.duration
        THEN [raised |-> "AttributeError", layers |-> ls, index |-> idx, ret |-> NoArg]
        ELSE LET end_time1 == IF end_time = NoArg THEN LayerDuration(layer)
                                                 ELSE end_time[1]
                 transform1 == IF transform = NoArg THEN DefaultTransform(sz)
                                                    ELSE transform[1]
                 component == Component(name1, layer, transform1, offset,
                                        start_time, end_time1, visible, "NORMAL")
             IN  [raised |-> "none", layers |-> Append(ls, component),
                  index |-> (name1 :> component) @@ idx, ret |-> component]

\* Composition.pop_layer: [raised, layers, index, ret]
pop_layer(ls, idx, name) ==
    IF name \notin DOMAIN idx
    THEN [raised |-> "KeyError", layers |-> ls, index |-> idx, ret |-> NoArg]
    ELSE IF \A i \in 1..Len(ls) : ls[i].name # name
    THEN [raised |-> "StopIteration", layers |-> ls, index |-> idx, ret |-> NoArg]
    ELSE LET index == CHOOSE i \in 1..Len(ls) :
                        /\ ls[i].name = name
                        /\ \A j \in 1..(i - 1) : ls[j].name # name
         IN  [raised |-> "none", layers |-> Remove(ls, index),
              index |-> [n \in (DOMAIN idx) \ {name} |-> idx[n]],
              ret |-> idx[name]]

(***************************************************************************)
(* History kept for the properties: seen[c] is the <<key, frame>> pairs    *)
(* that calls c(time) returned since the component lists last changed,     *)
(* used[c] the keys of c's cache in the order of their last use (a get or  *)
(* a set), evicted[c] the whole-frame keys ever evicted from c's cache.     *)
(***************************************************************************)
IsWholeFrameKey(key) == key[1] = "COMPOSITION"

RECURSIVE Replay(_, _, _)

\* used and evicted after the cache accesses log[i..]; ok is whether every key
\* evicted was the least recently used one when it was evicted.
Replay(h, log, i) ==
    IF i > Len(log) THEN h
    ELSE LET op == log[i][1]
             c == log[i][2]
             key == log[i][3]
             without == SelectSeq(h.used[c], LAMBDA k : k # key)
         IN  CASE op \in {"get", "set"} ->
                    Replay([h EXCEPT !.used[c] = Append(without, key)], log, i + 1)
               [] op = "evict" ->
                    Replay([h EXCEPT !.used[c] = without,
                                     !.evicted[c] = IF IsWholeFrameKey(key)
                                                    THEN @ \cup {key} ELSE @,
                                     !.ok = @ /\ h.used[c] # <<>>
                                              /\ h.used[c][1] = key],
                           log, i + 1)
               [] OTHER -> Replay(h, log, i + 1)

Replayed(log) == Replay([used |-> used, evicted |-> evicted, ok |-> TRUE], log, 1)

Traced(st) ==
    /\ used' = Replayed(st.log).used
    /\ evicted' = Replayed(st.log).evicted

\* A call Composition.add_layer(...)
AddLayer(c, layer, name, transform, offset, start_time, end_time, visible) ==
    /\ c \in made
    /\ LET r == add_layer(layers[c], _name_to_layer[c], size[c], layer, name,
                          transform, offset, start_time, end_time, visible)
           args == <<layer, name, transform, offset, start_time, end_time, visible>>
       IN  /\ layers' = [layers EXCEPT ![c] = r.layers]
           /\ _name_to_layer' = [_name_to_layer EXCEPT ![c] = r.index]
           /\ last' = IF r.raised = "none"
                      THEN Returned("add_layer", c, args, r.ret, NoTrace)
                      ELSE Raised("add_layer", c, args, r.raised)
           /\ seen' = IF r.raised = "none" THEN [d \in CompIds |-> {}] ELSE seen
    /\ UNCHANGED <<size, _duration, cache, made, used, evicted, hi>>
    /\ UNCHANGED matting

\* A call Composition.pop_layer(name)
PopLayer(c, name) ==
    /\ c \in made
    /\ LET r == pop_layer(layers[c], _name_to_layer[c], name)
       IN  /\ layers' = [layers EXCEPT ![c] = r.layers]
           /\ _name_to_layer' = [_name_to_layer EXCEPT ![c] = r.index]
           /\ last' = IF r.raised = "none"
                      THEN Returned("pop_layer", c, <<name>>, r.ret, NoTrace)
                      ELSE Raised("pop_layer", c, <<name>>, r.raised)
           /\ seen' = IF r.raised = "none" THEN [d \in CompIds |-> {}] ELSE seen
    /\ UNCHANGED <<size, _duration, cache, made, used, evicted, hi>>
    /\ UNCHANGED matting

\* A call composition(time)
Render(c, time) ==
    /\ c \in made
    /\ \E r \in {__call__(c, time, NoTrace)} :
           /\ cache' = r.st.cache
           /\ last' = IF Failed(r.st) THEN RaisedIn("render", c, <<time>>, r.st)
                      ELSE Returned("render", c, <<time>>, r.image, r.st)
           /\ seen' = IF Failed(r.st) THEN seen
                      ELSE [seen EXCEPT ![c] = @ \cup {<<get_key(c, time), r.image>>}]
           /\ Traced(r.st)
    /\ hi' = IF time > hi THEN time ELSE hi
    /\ UNCHANGED <<layers, _name_to_layer, size, _duration, made>>
    /\ UNCHANGED matting

\* A call composition.composite(bg_image, component, time)
Composite(c, bg_image, component, time) ==
    /\ c \in made
    /\ \E r \in {composite(c, bg_image, component, time, NoTrace)} :
           /\ cache' = r.st.cache
           /\ last' = IF Failed(r.st)
                      THEN RaisedIn("composite", c, <<bg_image, component, time>>, r.st)
                      ELSE Returned("composite", c, <<bg_image, component, time>>,
                                    r.image, r.st)
           /\ Traced(r.st)
    /\ UNCHANGED <<layers, _name_to_layer, size, _duration, made, seen, hi>>
    /\ UNCHANGED matting

RECURSIVE Sum(_)
Sum(seq) == IF seq = <<>> THEN 0 ELSE Head(seq) + Sum(Tail(seq))

\* concatenate from the default names on, given the size, the duration and the
\* offsets: [size, duration, raised, layers, index] of the new Composition
Placed(compositions, sz, duration, offsets) ==
    LET names == [i \in 1..Len(compositions) |-> "scene_" \o ToString(i - 1)]
        added[i \in 0..Len(compositions)] ==
            IF i = 0
            THEN [raised |-> "none", layers |-> <<>>, index |-> EmptyIndex,
                  ret |-> NoArg]
            ELSE IF added[i - 1].raised # "none" THEN added[i - 1]
            ELSE add_layer(added[i - 1].layers, added[i - 1].index, sz,
                           compositions[i], <<names[i]>>, NoArg, offsets[i], 0,
                           NoArg, TRUE)
    IN  [size |-> sz, duration |-> duration,
         raised |-> added[Len(compositions)].raised,
         layers |-> added[Len(compositions)].layers,
         index |-> added[Len(compositions)].index]

\* concatenate(compositions), with the default size, duration and names: the new
\* Composition is "main"
concatenate(compositions) ==
    LET durations == [i \in 1..Len(compositions) |-> _duration[compositions[i]]]
        \* np.cumsum([0] + [c.duration for c in compositions])
        offsets == [i \in 1..(Len(compositions) + 1) |-> Sum(SubSeq(durations, 1, i - 1))]
    IN  Placed(compositions, size[compositions[1]], Sum(durations), offsets)

\* A call concatenate(compositions) that made the Composition r
Concatenated(compositions, r) ==
    /\ "main" \notin made
    /\ \A i \in 1..Len(compositions) : compositions[i] \in made
    /\ r.raised = "none"
    /\ layers' = [layers EXCEPT !["main"] = r.layers]
    /\ _name_to_layer' = [_name_to_layer EXCEPT !["main"] = r.index]
    /\ size' = [size EXCEPT !["main"] = r.size]
    /\ _duration' = [_duration EXCEPT !["main"] = r.duration]
    /\ made' = made \cup {"main"}
    /\ last' = Returned("concatenate", "main", <<compositions>>, "main", NoTrace)
    /\ UNCHANGED <<cache, seen, used, evicted, hi>>
    /\ UNCHANGED matting

\* A call concatenate(compositions)
Concatenate(compositions) == Concatenated(compositions, concatenate(compositions))

(***************************************************************************)
(* Spec: one Composition "A" of size (2, 2) and the default duration, and  *)
(* any MaxOps calls of add_layer, pop_layer, render and composite on it.   *)
(***************************************************************************)
FrameSize == <<2, 2>>

\* Transform(position=(1, 1), scale=(2, 2))
Big == [position |-> <<1, 1>>, anchor_point |-> <<0, 0>>, scale |-> <<2, 2>>,
        opacity |-> 1]

AddArgs ==
    { [layer |-> "still", name |-> <<"a">>, transform |-> NoArg, offset |-> 0,
       start_time |-> 0, end_time |-> NoArg, visible |-> TRUE],
      [layer |-> "still2", name |-> <<"a">>, transform |-> NoArg, offset |-> 0,
       start_time |-> 0, end_time |-> NoArg, visible |-> TRUE],
      [layer |-> "clip", name |-> NoArg, transform |-> NoArg, offset |-> 1,
       start_time |-> 0, end_time |-> NoArg, visible |-> TRUE],
      [layer |-> "still", name |-> NoArg, transform |-> <<Big>>, offset |-> 0,
       start_time |-> 1, end_time |-> <<2>>, visible |-> TRUE],
      [layer |-> "still2", name |-> NoArg, transform |-> NoArg, offset |-> 0,
       start_time |-> 1, end_time |-> NoArg, visible |-> FALSE] }

Names == {"a"} \cup {DefaultName(n) : n \in 0..(MaxLayers - 1)}

Times == 0..MaxTime

Backgrounds == {zeros(FrameSize), Solid(9, 2, 2)}

\* Composition(size=FrameSize): duration = 1.0
Init ==
    /\ layers = [c \in CompIds |-> <<>>]
    /\ _name_to_layer = [c \in CompIds |-> EmptyIndex]
    /\ size = [c \in CompIds |-> IF c = "A" THEN FrameSize ELSE <<0, 0>>]
    /\ _duration = [c \in CompIds |-> IF c = "A" THEN 1 ELSE 0]
    /\ cache = [c \in CompIds |-> <<>>]
    /\ made = {"A"}
    /\ last = [op |-> "Composition", comp |-> "A", args |-> <<FrameSize>>,
               raised |-> "none", ret |-> NoArg, calls |-> <<>>, log |-> <<>>,
               again |-> FALSE]
    /\ nops = 0
    /\ seen = [c \in CompIds |-> {}]
    /\ used = [c \in CompIds |-> <<>>]
    /\ evicted = [c \in CompIds |-> {}]
    /\ hi = 0
    /\ NoMatting

Counted == nops < MaxOps /\ nops' = nops + 1

SpecAddLayer ==
    /\ Counted
    /\ Len(layers["A"]) < MaxLayers
    /\ \E a \in AddArgs :
            AddLayer("A", a.layer, a.name, a.transform, a.offset,
                     a.start_time, a.end_time, a.visible)

SpecPopLayer == Counted /\ \E name \in Names : PopLayer("A", name)

SpecRender == Counted /\ \E time \in Times : Render("A", time)

SpecComposite ==
    /\ Counted
    /\ \E bg_image \in Backgrounds, i \in 1..Len(layers["A"]), time \in Times :
            Composite("A", bg_image, layers["A"][i], time)

Next == SpecAddLayer \/ SpecPopLayer \/ SpecRender \/ SpecComposite

Spec == Init /\ [][Next]_vars

\* SpecEdit: the same, without calls of composite.
NextEdit == SpecAddLayer \/ SpecPopLayer \/ SpecRender

SpecEdit == Init /\ [][NextEdit]_vars

(***************************************************************************)
(* SpecLRU: a Composition "A" that fills its cache.  A gets the components *)
(* of LRUScript in order: two still images named "a", shown over [1, 3)    *)
(* and [0, 3), and six clips shown from time 3 on.  A and the empty        *)
(* Composition "B" may be concatenated into "main".  Then A is rendered at *)
(* the times 3, 4, ... in order (MaxSweep of them) and, at any point, at   *)
(* the times of Revisit; main is rendered at time 1.                       *)
(***************************************************************************)
MaxSweep == 20

SweepStart == 3

Revisit == {0, 1}

StillX == [layer |-> "still", name |-> <<"a">>, transform |-> NoArg, offset |-> 0,
           start_time |-> 1, end_time |-> <<SweepStart>>, visible |-> TRUE]

StillY == [layer |-> "still2", name |-> <<"a">>, transform |-> NoArg, offset |-> 0,
           start_time |-> 0, end_time |-> <<SweepStart>>, visible |-> TRUE]

Clip == [layer |-> "clip", name |-> NoArg, transform |-> NoArg, offset |-> 0,
         start_time |-> SweepStart, end_time |-> NoArg, visible |-> TRUE]

LRUScript == <<StillX, StillY, Clip, Clip, Clip, Clip, Clip, Clip>>

\* A = Composition(FrameSize, SweepStart + MaxSweep); B = Composition(FrameSize)
InitLRU ==
    /\ layers = [c \in CompIds |-> <<>>]
    /\ _name_to_layer = [c \in CompIds |-> EmptyIndex]
    /\ size = [c \in CompIds |-> IF c = "main" THEN <<0, 0>> ELSE FrameSize]
    /\ _duration = [c \in CompIds |->
                        CASE c = "A" -> SweepStart + MaxSweep
                          [] c = "B" -> 1
                          [] OTHER -> 0]
    /\ cache = [c \in CompIds |-> <<>>]
    /\ made = {"A", "B"}
    /\ last = [op |-> "Composition", comp |-> "B", args |-> <<FrameSize>>,
               raised |-> "none", ret |-> NoArg, calls |-> <<>>, log |-> <<>>,
               again |-> FALSE]
    /\ nops = 0
    /\ seen = [c \in CompIds |-> {}]
    /\ used = [c \in CompIds |-> <<>>]
    /\ evicted = [c \in CompIds |-> {}]
    /\ hi = 0
    /\ NoMatting

Built == Len(layers["A"]) = Len(LRUScript)

LRUAddLayer ==
    /\ ~Built
    /\ LET a == LRUScript[Len(layers["A"]) + 1]
       IN  AddLayer("A", a.layer, a.name, a.transform, a.offset, a.start_time,
                    a.end_time, a.visible)
    /\ UNCHANGED nops

LRUConcatenate ==
    /\ Built
    /\ cache["A"] = <<>>
    /\ Concatenate(<<"A", "B">>)
    /\ UNCHANGED nops

\* Revisits happen before the sweep and during its last two renders.
RevisitPhase == hi < SweepStart \/ hi >= SweepStart + MaxSweep - 2

LRUTimes ==
    {t \in Revisit : RevisitPhase}
        \cup {t \in SweepStart..(SweepStart + MaxSweep - 1) :
                    t = IF hi < SweepStart THEN SweepStart ELSE hi + 1}

LRURender ==
    /\ Built
    /\ \E time \in LRUTimes : Render("A", time)
    /\ UNCHANGED nops

LRURenderMain ==
    /\ "main" \in made
    /\ RevisitPhase
    /\ Render("main", 1)
    /\ UNCHANGED nops

NextLRU == LRUAddLayer \/ LRUConcatenate \/ LRURender \/ LRURenderMain

SpecLRU == InitLRU /\ [][NextLRU]_vars

(***************************************************************************)
(* Properties of Spec.                                                     *)
(***************************************************************************)
\* The step is a call of op (under [][...]_vars, where a step changes a variable).
IsCall(op) == last'.op = op

ListNames(c) == {layers[c][i].name : i \in 1..Len(layers[c])}

WholeFrameEntries(ch) == {ch[i] : i \in {j \in 1..Len(ch) : IsWholeFrameKey(ch[j].key)}}

CacheKeys(ch) == {ch[i].key : i \in 1..Len(ch)}

\* What composition(time) returns from empty caches.
RenderWithoutCache(c, time) ==
    __call__(c, time, [cache |-> [d \in CompIds |-> <<>>], calls |-> <<>>,
                       log |-> <<>>, raised |-> "none"]).image

\* C2: Calling render(t) twice in a row with nothing in between returns the same
\* buffer both times; after a render(t) the cache holds the returned frame under
\* get_key(t), in one whole-frame entry that the call added if the key was not
\* cached; the second call is a cache hit: it renders no layer and adds no entry.
C2_RenderTwice ==
    [][IsCall("render") =>
        LET c == last'.comp
            key == get_key(c, last'.args[1])
            added == WholeFrameEntries(cache'[c]) \ WholeFrameEntries(cache[c])
        IN  /\ added \subseteq {[key |-> key, value |-> last'.ret]}
            /\ ~CacheContains(cache[c], key) => Cardinality(added) = 1
            /\ CacheContains(cache'[c], key)
            /\ CacheGetItem(cache'[c], key).value = last'.ret
            /\ last'.again =>
                /\ last'.ret = last.ret
                /\ last'.calls = <<>>
                /\ last'.log = <<<<"in", c, key>>, <<"get", c, key>>>>
                /\ CacheKeys(cache'[c]) = CacheKeys(cache[c])
                /\ Len(cache'[c]) = Len(cache[c])]_vars

\* A render(t) that repeats the render(t) before it, whose frame is not blank.
C2_Witness ==
    /\ last.op = "render" /\ last.again
    /\ last.ret # zeros(FrameSize)
    /\ Len(layers["A"]) > 0

\* C3 as stated: every whole-frame entry of the cache equals the frame a render
\* without cache of the current composition produces at any time with that key.
C3_CacheMatchesCurrentState ==
    \A e \in WholeFrameEntries(cache["A"]) : \A time \in Times :
        get_key("A", time) = e.key => e.value = RenderWithoutCache("A", time)

\* C3 amended: a whole-frame entry is the frame returned by the render call that
\* stored it, under the key of that call; no call changes or replaces a stored
\* entry, and add_layer and pop_layer leave the whole cache as it is.
C3_EntriesAreStoredFrames ==
    [][/\ \A e \in WholeFrameEntries(cache'["A"]) :
            \/ e \in WholeFrameEntries(cache["A"])
            \/ /\ IsCall("render")
               /\ e.key = get_key("A", last'.args[1])
               /\ e.value = last'.ret
       /\ (IsCall("add_layer") \/ IsCall("pop_layer")) => cache' = cache]_vars

\* After add_layer or pop_layer the cache still holds a whole-frame entry that
\* differs from what the composition now renders at a time with that key.
C3_Witness ==
    /\ last.op \in {"add_layer", "pop_layer"}
    /\ ~C3_CacheMatchesCurrentState

\* C6: composite(bg, component, time) with time - offset outside
\* [start_time, end_time) returns bg unchanged, whatever the visible flag, renders
\* no layer and neither reads nor writes the cache.
OutsideWindow(component, time) ==
    \/ time - component.offset < component.start_time
    \/ time - component.offset >= component.end_time

C6_OutsideWindowIsIdentity ==
    [][(IsCall("composite") /\ OutsideWindow(last'.args[2], last'.args[3])) =>
        /\ last'.raised = "none"
        /\ last'.ret = last'.args[1]
        /\ last'.calls = <<>>
        /\ last'.log = <<>>
        /\ cache' = cache]_vars

\* composite was called on a non-blank background with a visible component
\* outside its window, with a cache that is not empty.
C6_Witness ==
    /\ last.op = "composite"
    /\ OutsideWindow(last.args[2], last.args[3])
    /\ last.args[2].visible
    /\ last.args[1] # zeros(FrameSize)
    /\ cache["A"] # <<>>

\* C7: add_layer with an explicit name that a component already has raises
\* KeyError and leaves the component list and the name index unchanged.
C7_DuplicateNameRaises ==
    [][(/\ IsCall("add_layer")
        /\ last'.args[2] # NoArg
        /\ last'.args[2][1] \in ListNames(last'.comp)) =>
        /\ last'.raised = "KeyError"
        /\ layers' = layers
        /\ _name_to_layer' = _name_to_layer]_vars

\* C8: the names of the components in the list are pairwise distinct, and the
\* name index maps exactly those names, each to the component of that name.
C8_NamesUnique ==
    \A c \in made :
        /\ \A i, j \in 1..Len(layers[c]) :
                layers[c][i].name = layers[c][j].name => i = j
        /\ DOMAIN _name_to_layer[c] = ListNames(c)
        /\ \A i \in 1..Len(layers[c]) :
                _name_to_layer[c][layers[c][i].name] = layers[c][i]

\* C9: pop_layer(name) with a name no component has raises KeyError and changes
\* nothing; with a name a component has it returns that component, removes it
\* from the list, keeping the order of the others, and removes the name from the
\* index.
C9_PopLayer ==
    [][IsCall("pop_layer") =>
        LET c == last'.comp
            name == last'.args[1]
        IN  IF name \notin ListNames(c)
            THEN /\ last'.raised = "KeyError"
                 /\ layers' = layers
                 /\ _name_to_layer' = _name_to_layer
            ELSE /\ last'.raised = "none"
                 /\ last'.ret.name = name
                 /\ \E i \in 1..Len(layers[c]) :
                        /\ layers[c][i] = last'.ret
                        /\ layers'[c] = Remove(layers[c], i)
                 /\ name \notin DOMAIN _name_to_layer'[c]
                 /\ \A n \in DOMAIN _name_to_layer'[c] :
                        _name_to_layer'[c][n] = _name_to_layer[c][n]]_vars

(***************************************************************************)
(* Properties of SpecLRU.                                                  *)
(***************************************************************************)
\* C1: while the component lists stay as they are, two render calls of a
\* composition whose times have equal get_key values return equal frames.
C1_EqualKeysEqualFrames ==
    \A c \in made : \A p, q \in seen[c] : p[1] = q[1] => p[2] = q[2]

\* C4: a cache never holds more than maxsize = 128 entries, whole-frame and
\* resized-layer entries together.
C4_CacheBounded == \A c \in CompIds : Len(cache[c]) <= maxsize

HasEvent(log, op, c, key) == \E i \in 1..Len(log) : log[i] = <<op, c, key>>

Evictions(log) == {i \in 1..Len(log) : log[i][1] = "evict"}

\* A render that evicted entries from a full cache holding both kinds of entry.
C4_Witness ==
    /\ last.op = "render"
    /\ Evictions(last.log) # {}
    /\ Len(cache["A"]) = maxsize
    /\ WholeFrameEntries(cache["A"]) # {}
    /\ \E i \in 1..Len(cache["A"]) : ~IsWholeFrameKey(cache["A"][i].key)

\* The layers of the components of c that composition(time) renders on a miss.
ActiveLayers(c, time) ==
    {layers[c][i].layer : i \in {j \in 1..Len(layers[c]) :
        /\ ~OutsideWindow(layers[c][j], time)
        /\ layers[c][j].visible}}

\* C5: every entry a render evicts is the least recently used one, where storing
\* an entry and reading it on a hit both count as a use; a render of a
\* whole-frame key that was evicted is a miss that composites the frame again
\* from the layers and stores it.
C5_EvictsLeastRecentlyUsed ==
    [][IsCall("render") =>
        LET c == last'.comp
            time == last'.args[1]
            key == get_key(c, time)
        IN  /\ Replayed(last'.log).ok
            /\ (key \in evicted[c] /\ ~CacheContains(cache[c], key)) =>
                /\ ~HasEvent(last'.log, "get", c, key)
                /\ HasEvent(last'.log, "set", c, key)
                /\ \A layer \in ActiveLayers(c, time) :
                        \E i \in 1..Len(last'.calls) : last'.calls[i] = <<layer, time>>
                /\ CacheContains(cache'[c], key)]_vars

\* A render of A at a time whose whole-frame key had been evicted: it rendered
\* layers, stored the frame again and evicted another entry.
C5_Witness ==
    /\ last.op = "render" /\ last.comp = "A"
    /\ get_key("A", last.args[1]) \in evicted["A"]
    /\ HasEvent(last.log, "set", "A", get_key("A", last.args[1]))
    /\ last.calls # <<>>
    /\ Evictions(last.log) # {}

\* C10: the Composition concatenate returns has the sum of the durations, and
\* rendering it at offset_i + s returns the frame that rendering c_i at s returns.
C10_ConcatenatePlaysInOrder ==
    "main" \in made =>
        /\ _duration["main"] = Sum([i \in 1..Len(layers["main"]) |->
                                        _duration[layers["main"][i].layer]])
        /\ (last.op = "render" /\ last.comp = "main") =>
                \A i \in 1..Len(layers["main"]) :
                    LET component == layers["main"][i]
                        s == last.args[1] - component.offset
                    IN  (0 <= s /\ s < _duration[component.layer]) =>
                            last.ret = __call__(component.layer, s, NoTrace).image

(***************************************************************************)
(* Properties of _get_or_resize.                                           *)
(***************************************************************************)
IsLayerKey(key) == key[1] = "LAYER"

\* C11: _get_or_resize with scale (1, 1) returns the input buffer and runs no
\* resize, reads no cache entry and inserts none: no call tests, reads, resizes
\* or stores under a resized-layer key whose scale is (1, 1), and no cache holds
\* such a key.
C11_UnitScaleSkipsCache ==
    [][/\ \A i \in 1..Len(last'.log) :
            IsLayerKey(last'.log[i][3]) => last'.log[i][3][4] # <<1, 1>>
       /\ \A c \in CompIds : \A i \in 1..Len(cache'[c]) :
            IsLayerKey(cache'[c][i].key) => cache'[c][i].key[4] # <<1, 1>>]_vars

(***************************************************************************)
(* SpecProto: Composition "A" gets still images, the layer "faulty" and    *)
(* the layer "bare", may be wrapped by concatenate into "main", and both   *)
(* are rendered.                                                           *)
(***************************************************************************)
ProtoArgs ==
    {[layer |-> "still", name |-> NoArg, transform |-> NoArg, offset |-> 0,
      start_time |-> 0, end_time |-> NoArg, visible |-> TRUE],
     [layer |-> "still2", name |-> NoArg, transform |-> <<Big>>, offset |-> 0,
      start_time |-> 0, end_time |-> NoArg, visible |-> TRUE],
     [layer |-> "faulty", name |-> NoArg, transform |-> NoArg, offset |-> 0,
      start_time |-> 0, end_time |-> NoArg, visible |-> TRUE],
     [layer |-> "bare", name |-> NoArg, transform |-> NoArg, offset |-> 0,
      start_time |-> 0, end_time |-> NoArg, visible |-> TRUE],
     [layer |-> "bare", name |-> NoArg, transform |-> NoArg, offset |-> 1,
      start_time |-> 0, end_time |-> <<2>>, visible |-> TRUE]}

ProtoAddLayer ==
    /\ Counted
    /\ Len(layers["A"]) < MaxLayers
    /\ \E a \in ProtoArgs :
            AddLayer("A", a.layer, a.name, a.transform, a.offset,
                     a.start_time, a.end_time, a.visible)

ProtoConcatenate == Counted /\ Concatenate(<<"A">>)

ProtoRender == Counted /\ \E c \in made, time \in Times : Render(c, time)

NextProto == ProtoAddLayer \/ ProtoConcatenate \/ ProtoRender

SpecProto == Init /\ [][NextProto]_vars

\* C12: when a layer's render raises during render(t), render raises: the
\* failing layer call is the last layer call of the render (no later component
\* is composited, nothing is retried), no whole-frame entry is stored in any
\* cache, and a render(t) that follows composites again.
C12_LayerFailureAbortsFrame ==
    [][(IsCall("render") /\ last'.raised # "none") =>
        LET calls == last'.calls
            n == Len(calls)
        IN  /\ last'.raised = "RuntimeError"
            /\ n > 0
            /\ LeafRaises(calls[n][1], calls[n][2])
            /\ \A i \in 1..(n - 1) : ~LeafRaises(calls[i][1], calls[i][2])
            /\ \A i \in 1..Len(last'.log) :
                    last'.log[i][1] = "set" => ~IsWholeFrameKey(last'.log[i][3])
            /\ \A c \in CompIds :
                    WholeFrameEntries(cache'[c]) = WholeFrameEntries(cache[c])
            /\ ~CacheContains(cache'[last'.comp], get_key(last'.comp, last'.args[1]))
            /\ (last'.again /\ last.raised # "none") =>
                    /\ last'.calls = last.calls
                    /\ last'.raised = last.raised]_vars

\* A render raised twice in a row, after an earlier component was composited
\* and with a later component left out.
C12_Witness ==
    /\ last.op = "render" /\ last.raised = "RuntimeError" /\ last.again
    /\ \E i \in 1..Len(layers["A"]) :
            /\ layers["A"][i].layer = "faulty"
            /\ i < Len(layers["A"]) \/ Len(last.calls) > 1

\* C13: add_layer accepts a layer that has __call__ only; without an end_time
\* argument the component's end_time is the unbounded duration 1e6; the layer's
\* key at a time is the time, so at two distinct times inside the component's
\* window the component's element of the whole-frame key differs.
C13_RenderOnlyLayerAccepted ==
    [][(IsCall("add_layer") /\ last'.args[1] = "bare") =>
        /\ last'.raised = "none"
        /\ last'.args[6] = NoArg => last'.ret.end_time = BasicLayerDuration
        /\ \A t1, t2 \in Times :
                (/\ t1 # t2
                 /\ ~OutsideWindow(last'.ret, t1)
                 /\ ~OutsideWindow(last'.ret, t2)) =>
                    ComponentGetKey(last'.ret, t1 - last'.ret.offset)
                        # ComponentGetKey(last'.ret, t2 - last'.ret.offset)]_vars

\* C14: get_key(t) of a Composition with n components is a tuple of length
\* n + 1 that starts with the COMPOSITION tag; its element i + 1 is None exactly
\* when t - offset_i is outside [start_time_i, end_time_i), and is otherwise
\* the key of component i's layer at the local time t - offset_i, which for a
\* nested Composition is that Composition's get_key at the local time.
C14_KeyShape ==
    \A c \in made : \A t \in Times :
        LET key == get_key(c, t)
            n == Len(layers[c])
        IN  /\ Len(key) = n + 1
            /\ key[1] = "COMPOSITION"
            /\ \A i \in 1..n :
                LET component == layers[c][i]
                    local == t - component.offset
                IN  IF local < component.start_time \/ local >= component.end_time
                    THEN key[i + 1] = None
                    ELSE /\ key[i + 1] # None
                         /\ key[i + 1] = IF component.layer \in CompIds
                                         THEN get_key(component.layer, local)
                                         ELSE LayerGetKey(component.layer, local)

\* "main" wraps A, which has a shifted component that is outside its window at
\* one time and inside it at another, next to a component that is inside.
C14_Witness ==
    /\ "main" \in made
    /\ Len(layers["A"]) = 2
    /\ \E i \in 1..2 :
            /\ layers["A"][i].offset > 0
            /\ OutsideWindow(layers["A"][i], 0)
            /\ ~OutsideWindow(layers["A"][i], 1)
            /\ ~OutsideWindow(layers["A"][3 - i], 0)
    /\ get_key("main", 0)[2] = get_key("A", 0)

(***************************************************************************)
(* SpecFloat: concatenate on durations that are floating-point numbers.    *)
(* Durations, offsets and times are Python floats.  In the specifications  *)
(* above they are small integers, which floating-point addition and        *)
(* subtraction handle exactly.  Here a float has Precision significant     *)
(* bits (a double has 53) and is written as a multiple of the smallest     *)
(* unit; Round is round-to-nearest, ties to even, as in IEEE 754.          *)
(***************************************************************************)
Precision == 3

MaxChildren == 3

\* The number of bits of x > 0.
BitLen(x) == CHOOSE k \in 1..30 : 2 ^ (k - 1) <= x /\ x < 2 ^ k

\* The float nearest to x >= 0.
Round(x) ==
    IF x < 2 ^ Precision THEN x
    ELSE LET q == 2 ^ (BitLen(x) - Precision)
             m == x \div q
             rest == x - m * q
         IN  IF 2 * rest < q \/ (2 * rest = q /\ m % 2 = 0)
             THEN m * q
             ELSE (m + 1) * q

\* a + b and a - b on floats, a and b >= 0
FloatAdd(a, b) == Round(a + b)

FloatSub(a, b) == IF a >= b THEN Round(a - b) ELSE 0 - Round(b - a)

\* sum(durations) and np.cumsum([0] + durations)[i - 1]: added from the left
FloatSum(durations) ==
    LET acc[i \in 0..Len(durations)] ==
            IF i = 0 THEN 0 ELSE FloatAdd(acc[i - 1], durations[i])
    IN  acc[Len(durations)]

FloatCumsum(durations) ==
    [i \in 1..(Len(durations) + 1) |-> FloatSum(SubSeq(durations, 1, i - 1))]

\* concatenate(compositions), as concatenate above, in floating point
float_concatenate(compositions) ==
    LET durations == [i \in 1..Len(compositions) |-> _duration[compositions[i]]]
    IN  Placed(compositions, size[compositions[1]], FloatSum(durations),
               FloatCumsum(durations))

\* The window test of get_key and composite at the float time:
\*     layer_time = time - component.offset
\*     if layer_time < component.start_time or component.end_time <= layer_time
FloatInside(component, time) ==
    LET layer_time == FloatSub(time, component.offset)
    IN  ~(layer_time < component.start_time \/ component.end_time <= layer_time)

FloatValues == 1..(2 ^ Precision - 1)

\* A = Composition(FrameSize, a), B = Composition(FrameSize, b)
InitFloat ==
    /\ layers = [c \in CompIds |-> <<>>]
    /\ _name_to_layer = [c \in CompIds |-> EmptyIndex]
    /\ size = [c \in CompIds |-> IF c = "main" THEN <<0, 0>> ELSE FrameSize]
    /\ \E a, b \in FloatValues :
            _duration = [c \in CompIds |->
                            CASE c = "A" -> a [] c = "B" -> b [] OTHER -> 0]
    /\ cache = [c \in CompIds |-> <<>>]
    /\ made = {"A", "B"}
    /\ last = [op |-> "Composition", comp |-> "B", args |-> <<FrameSize>>,
               raised |-> "none", ret |-> NoArg, calls |-> <<>>, log |-> <<>>,
               again |-> FALSE]
    /\ nops = 0
    /\ seen = [c \in CompIds |-> {}]
    /\ used = [c \in CompIds |-> <<>>]
    /\ evicted = [c \in CompIds |-> {}]
    /\ hi = 0
    /\ NoMatting

Children == UNION {[1..n -> {"A", "B"}] : n \in 1..MaxChildren}

FloatConcatenate ==
    /\ \E compositions \in Children : Concatenated(compositions,
                                                   float_concatenate(compositions))
    /\ UNCHANGED nops

NextFloat == FloatConcatenate

SpecFloat == InitFloat /\ [][NextFloat]_vars

\* The children of main inside their window at the time.
ActiveChildren(time) ==
    {i \in 1..Len(layers["main"]) : FloatInside(layers["main"][i], time)}

\* C15: in the Composition concatenate builds from children of positive
\* duration, exactly one child is inside its window at every time t with
\* 0 <= t < total duration, and at the start of child i that child is child i.
C15_ExactlyOneActiveChild ==
    "main" \in made =>
        /\ \A t \in 0..(_duration["main"] - 1) :
                t = Round(t) => Cardinality(ActiveChildren(t)) = 1
        /\ \A i \in 1..Len(layers["main"]) :
                layers["main"][i].offset < _duration["main"] =>
                    ActiveChildren(layers["main"][i].offset) = {i}

(***************************************************************************)
(* Properties of the compositing order.                                    *)
(***************************************************************************)
\* The components of c that composition(time) paints: inside their window and
\* visible, in list order.
Painted(c, time) ==
    SelectSeq([i \in 1..Len(layers[c]) |-> layers[c][i]],
              LAMBDA component : ~OutsideWindow(component, time) /\ component.visible)

\* The frame that results from painting the components of Painted(c, time) in
\* that order over a transparent buffer, each with the image that the cache ch
\* holds under the component's resized-layer key.
PaintedInOrder(c, time, ch) ==
    LET comps == Painted(c, time)
        frame[i \in 0..Len(comps)] ==
            IF i = 0 THEN zeros(size[c])
            ELSE LET component == comps[i]
                     local == time - component.offset
                     p == component.transform
                     key == <<"LAYER", component.name,
                              ComponentGetKey(component, local), p.scale>>
                     fg == LeafCall(component.layer, local)
                     x == p.position[1]
                            + (p.anchor_point[1] - Width(fg) \div 2) * p.scale[1]
                     y == p.position[2]
                            + (p.anchor_point[2] - Height(fg) \div 2) * p.scale[2]
                 IN  alpha_composite(frame[i - 1], CacheGetItem(ch, key).value,
                                     <<x, y>>, p.opacity, component.blending_mode)
    IN  frame[Len(comps)]

\* C16: on a cache miss render(t) starts from a fully transparent buffer and
\* composites the components one at a time in list order: the layers rendered
\* are those of the visible components inside their window, each once, in list
\* order, and the frame is those components painted in that order, a later one
\* over an earlier one.
C16_CompositesInListOrder ==
    [][(/\ IsCall("render")
        /\ last'.raised = "none"
        /\ ~CacheContains(cache[last'.comp], get_key(last'.comp, last'.args[1]))) =>
        LET c == last'.comp
            time == last'.args[1]
            comps == Painted(c, time)
        IN  /\ last'.calls = [i \in 1..Len(comps) |->
                                <<comps[i].layer, time - comps[i].offset>>]
            /\ last'.ret = PaintedInOrder(c, time, cache'[c])
            /\ comps = <<>> => last'.ret = zeros(size[c])]_vars

\* A render on a miss painted two components of different layers, the second
\* over the first.
C16_Witness ==
    /\ last.op = "render" /\ last.raised = "none"
    /\ HasEvent(last.log, "set", "A", get_key("A", last.args[1]))
    /\ Len(last.calls) = 2
    /\ last.calls[1][1] # last.calls[2][1]
    /\ last.ret = LeafCall(last.calls[2][1], last.calls[2][2])

RECURSIVE ResizedOnMissOnly(_, _, _)

\* In the cache accesses log[i..], starting from caches that hold the keys
\* present[c]: every resize is for a key that is absent and every read for a key
\* that is present.
ResizedOnMissOnly(present, log, i) ==
    IF i > Len(log) THEN TRUE
    ELSE LET op == log[i][1]
             c == log[i][2]
             key == log[i][3]
         IN  CASE op = "resize" ->
                    /\ key \notin present[c]
                    /\ ResizedOnMissOnly(present, log, i + 1)
               [] op = "get" ->
                    /\ key \in present[c]
                    /\ ResizedOnMissOnly(present, log, i + 1)
               [] op = "set" ->
                    ResizedOnMissOnly([present EXCEPT ![c] = @ \cup {key}], log, i + 1)
               [] op = "evict" ->
                    ResizedOnMissOnly([present EXCEPT ![c] = @ \ {key}], log, i + 1)
               [] OTHER -> ResizedOnMissOnly(present, log, i + 1)

\* C17: for a component whose layer key and scale (not (1, 1)) are the same at
\* several local times, _get_or_resize runs the resize on the first call only:
\* while the entry (LAYER, name, layer key, scale) is in the cache, a call
\* returns the stored buffer without resizing, and a resize happens only when
\* the entry is absent, after which it is stored.
C17_ResizesOncePerEntry ==
    [][/\ ResizedOnMissOnly([c \in CompIds |-> CacheKeys(cache[c])], last'.log, 1)
       /\ \A i \in 1..Len(layers["A"]) : \A t \in Times :
            LET component == layers["A"][i]
                local == t - component.offset
                scale == component.transform.scale
                key == <<"LAYER", component.name,
                         ComponentGetKey(component, local), scale>>
                image == LeafCall(component.layer, local)
                r == _get_or_resize("A", component, local, image, scale, NoTrace)
            IN  (scale # <<1, 1>> /\ ~OutsideWindow(component, t)) =>
                    IF CacheContains(cache["A"], key)
                    THEN /\ r.image = CacheGetItem(cache["A"], key).value
                         /\ ~HasEvent(r.st.log, "resize", "A", key)
                         /\ CacheKeys(r.st.cache["A"]) = CacheKeys(cache["A"])
                    ELSE /\ r.image = resize(image, scale)
                         /\ HasEvent(r.st.log, "resize", "A", key)
                         /\ CacheContains(r.st.cache["A"], key)]_vars

\* A render at a second local time of a scaled component with the same layer
\* key: the layer was rendered, the resized image was read from the cache and
\* nothing was resized.
C17_Witness ==
    /\ last.op = "render" /\ last.comp = "A" /\ last.raised = "none"
    /\ last.calls # <<>>
    /\ \E i \in 1..Len(last.log) :
            /\ last.log[i][1] = "get"
            /\ IsLayerKey(last.log[i][3])
            /\ last.log[i][3][4] = <<2, 2>>
    /\ \A i \in 1..Len(last.log) : last.log[i][1] # "resize"

(***************************************************************************)
(* make_video.  Its times are floats: np.arange(start_time, end_time,      *)
(* 1.0 / fps).  A float is written here as the integer number of units of  *)
(* 1 / One it holds, and every operation rounds its result to Digits       *)
(* significant bits (a result below 2^Digits units, that is below 1/16, to *)
(* a whole unit).                                                          *)
(***************************************************************************)
Digits == Precision + 3

\* The float 1.0
One == 2 ^ (Digits + 4)

\* The float nearest to n / d, n >= 0 and d > 0: round to nearest, ties to even
RoundRat(n, d) ==
    LET x == n \div d
        q == IF x < 2 ^ Digits THEN 1 ELSE 2 ^ (BitLen(x) - Digits)
        m == n \div (d * q)
        rest == n - m * d * q
    IN  IF 2 * rest < d * q \/ (2 * rest = d * q /\ m % 2 = 0)
        THEN m * q
        ELSE (m + 1) * q

\* a + b, a - b, a / b and a * b on floats, a >= 0 and b > 0
TimeAdd(a, b) == RoundRat(a + b, 1)

TimeSub(a, b) == IF a >= b THEN RoundRat(a - b, 1) ELSE 0 - RoundRat(b - a, 1)

TimeDiv(a, b) == RoundRat(a * One, b)

TimeMul(a, b) == RoundRat(a * b, One)

\* ceil(x) as an integer, for a float x
Ceil(x) == IF x >= 0 THEN (x + One - 1) \div One ELSE 0 - ((0 - x) \div One)

\* np.arange(start, stop, step) on floats: ceil((stop - start) / step) values,
\* the first two start and start + step, value i = start + i * delta with
\* delta = (start + step) - start
np_arange(start, stop, step) ==
    LET len == IF stop >= start THEN Ceil(TimeDiv(TimeSub(stop, start), step))
                                ELSE 0
        next == TimeAdd(start, step)
        delta == TimeSub(next, start)
    IN  [i \in 1..len |->
            CASE i = 1 -> start
              [] i = 2 -> next
              [] OTHER -> TimeAdd(start, TimeMul((i - 1) * One, delta))]

\* frame = np.asarray(self(t)); writer.append_data(frame)
AppendData(a, t, r) ==
    IF Failed(r.st) THEN [st |-> r.st, written |-> a.written]
    ELSE [st |-> r.st, written |-> Append(a.written, <<t, r.image>>)]

WriteFrame(c, a, t) == IF Failed(a.st) THEN a ELSE AppendData(a, t, __call__(c, t, a.st))

\* self.cache.clear()
CacheClear(c, st) == [st EXCEPT !.cache[c] = <<>>]

\* writer.close(); self.cache.clear(): not reached when a render raised
Finished(c, times, a) ==
    [times |-> times, written |-> a.written, closed |-> ~Failed(a.st),
     st |-> IF Failed(a.st) THEN a.st ELSE CacheClear(c, a.st)]

\* Composition.make_video: [times, written, closed, st]
make_video(c, start_time, end_time, fps, st) ==
    LET end_time1 == IF end_time = NoArg THEN _duration[c] ELSE end_time[1]
        times == np_arange(start_time, end_time1, TimeDiv(One, fps))
        loop[i \in 0..Len(times)] ==
            IF i = 0 THEN [st |-> st, written |-> <<>>]
            ELSE WriteFrame(c, loop[i - 1], times[i])
    IN  Finished(c, times, loop[Len(times)])

\* A call composition.make_video(dst_file, start_time, end_time, fps=fps)
MakeVideo(c, start_time, end_time, fps) ==
    /\ c \in made
    /\ \E r \in {make_video(c, start_time, end_time, fps, NoTrace)} :
           LET args == <<start_time, end_time, fps>>
               ret == [times |-> r.times, written |-> r.written, closed |-> r.closed]
           IN  /\ cache' = r.st.cache
               /\ last' = IF Failed(r.st) THEN RaisedIn("make_video", c, args, r.st)
                          ELSE Returned("make_video", c, args, ret, r.st)
               /\ seen' = [seen EXCEPT ![c] = @ \cup
                            {<<get_key(c, r.written[i][1]), r.written[i][2]>> :
                                i \in 1..Len(r.written)}]
               /\ used' = IF Failed(r.st) THEN Replayed(r.st.log).used
                          ELSE [Replayed(r.st.log).used EXCEPT ![c] = <<>>]
               /\ evicted' = Replayed(r.st.log).evicted
               /\ hi' = IF r.times # <<>> /\ r.times[Len(r.times)] > hi
                        THEN r.times[Len(r.times)] ELSE hi
    /\ UNCHANGED <<layers, _name_to_layer, size, _duration, made>>
    /\ UNCHANGED matting

\* add_layer(clip), add_layer(still2, offset=1.0, end_time=1.0)
VideoArgs ==
    { [layer |-> "clip", name |-> NoArg, transform |-> NoArg, offset |-> 0,
       start_time |-> 0, end_time |-> NoArg, visible |-> TRUE],
      [layer |-> "still2", name |-> NoArg, transform |-> NoArg, offset |-> One,
       start_time |-> 0, end_time |-> <<One>>, visible |-> TRUE] }

\* 1.0, 2.375
VideoTimes == {One, 2 * One + 3 * (One \div 8)}

\* fps = 2.0, 3.0
VideoRates == {2 * One, 3 * One}

\* A = Composition(FrameSize, duration)
InitVideo ==
    /\ layers = [c \in CompIds |-> <<>>]
    /\ _name_to_layer = [c \in CompIds |-> EmptyIndex]
    /\ size = [c \in CompIds |-> IF c = "A" THEN FrameSize ELSE <<0, 0>>]
    /\ \E duration \in VideoTimes :
            _duration = [c \in CompIds |-> IF c = "A" THEN duration ELSE 0]
    /\ cache = [c \in CompIds |-> <<>>]
    /\ made = {"A"}
    /\ last = [op |-> "Composition", comp |-> "A", args |-> <<FrameSize>>,
               raised |-> "none", ret |-> NoArg, calls |-> <<>>, log |-> <<>>,
               again |-> FALSE]
    /\ nops = 0
    /\ seen = [c \in CompIds |-> {}]
    /\ used = [c \in CompIds |-> <<>>]
    /\ evicted = [c \in CompIds |-> {}]
    /\ hi = 0
    /\ NoMatting

VideoAddLayer ==
    /\ Counted
    /\ Len(layers["A"]) < MaxLayers
    /\ \E a \in VideoArgs :
            AddLayer("A", a.layer, a.name, a.transform, a.offset, a.start_time,
                     a.end_time, a.visible)

VideoRender == Counted /\ \E time \in {0, One} : Render("A", time)

VideoMakeVideo ==
    /\ Counted
    /\ \E start_time \in {0, One}, end_time \in {NoArg, <<2 * One + 3 * (One \div 8)>>},
          fps \in VideoRates :
            MakeVideo("A", start_time, end_time, fps)

NextVideo == VideoAddLayer \/ VideoRender \/ VideoMakeVideo

SpecVideo == InitVideo /\ [][NextVideo]_vars

\* The number of k >= 0 with start_time + k / fps < end_time, in exact arithmetic.
FramesBelow(start_time, end_time, fps) ==
    IF end_time <= start_time THEN 0
    ELSE ((end_time - start_time) * fps + One * One - 1) \div (One * One)

\* C18: make_video calls render exactly once for each timestamp
\* start_time + k / fps below end_time (end_time defaulting to the duration), in
\* strictly increasing order, hands the frames to the writer in that order and
\* leaves the cache empty when it returns.
C18_MakeVideoSamplesBelowEnd ==
    (last.op = "make_video" /\ last.raised = "none") =>
        LET c == last.comp
            start_time == last.args[1]
            end_time == IF last.args[2] = NoArg THEN _duration[c] ELSE last.args[2][1]
            fps == last.args[3]
            times == last.ret.times
            written == last.ret.written
        IN  /\ Len(times) = FramesBelow(start_time, end_time, fps)
            /\ \A i \in 1..Len(times) : start_time <= times[i] /\ times[i] < end_time
            /\ \A i \in 1..(Len(times) - 1) : times[i] < times[i + 1]
            /\ [i \in 1..Len(written) |-> written[i][1]] = times
            /\ last.ret.closed
            /\ cache[c] = <<>>

(***************************************************************************)
(* The RobustVideoMatting effect.  The network is the ONNX file the        *)
(* constructor is given: a deterministic function from the image and the   *)
(* recurrent state to the alpha and the next recurrent state.              *)
(***************************************************************************)
Frames == {1, 2}

States == {ZeroState, 1}

Alphas == {0, 1}

\* The ONNX models: session.run(src, r1i..r4i) -> [alpha, r1o..r4o]
Networks == [Frames \X States -> Alphas \X States]

\* RobustVideoMatting.get_key
MattingGetKey(time) == IF _recurrent_state THEN time ELSE 0 - 1

\* RobustVideoMatting(onnx_file, recurrent_state=...)
InitMatting ==
    /\ layers = [c \in CompIds |-> <<>>]
    /\ _name_to_layer = [c \in CompIds |-> EmptyIndex]
    /\ size = [c \in CompIds |-> <<0, 0>>]
    /\ _duration = [c \in CompIds |-> 0]
    /\ cache = [c \in CompIds |-> <<>>]
    /\ made = {}
    /\ last = [op |-> "RobustVideoMatting", comp |-> "A", args |-> <<>>,
               raised |-> "none", ret |-> NoArg, calls |-> <<>>, log |-> <<>>,
               again |-> FALSE]
    /\ nops = 0
    /\ seen = [c \in CompIds |-> {}]
    /\ used = [c \in CompIds |-> <<>>]
    /\ evicted = [c \in CompIds |-> {}]
    /\ hi = 0
    /\ _onnx_file \in Networks
    /\ _recurrent_state \in BOOLEAN
    /\ _state = ZeroState
    /\ _session = None
    /\ returned = {}

\* RobustVideoMatting.__call__(prev_frame, time): the session is created on the
\* first call, the state is replaced in recurrent mode only, and the result is
\* the frame's colours with the alpha of the network.
MattingCall(prev_frame, time) ==
    LET out == _onnx_file[<<prev_frame, _state>>]
        alpha == out[1]
        dst == <<prev_frame, alpha>>
    IN  /\ _session' = IF _session = None THEN <<"InferenceSession">> ELSE _session
        /\ _state' = IF _recurrent_state THEN out[2] ELSE _state
        /\ returned' = returned \cup
                {[frame |-> prev_frame, time |-> time, key |-> MattingGetKey(time),
                  dst |-> dst]}
        /\ last' = Returned("matting", "A", <<prev_frame, time>>, dst, NoTrace)
        /\ UNCHANGED <<_onnx_file, _recurrent_state>>
        /\ UNCHANGED <<layers, _name_to_layer, size, _duration, cache, made, seen,
                       used, evicted, hi>>

MattingTimes == {0, 1}

NextMatting ==
    /\ Counted
    /\ \E prev_frame \in Frames, time \in MattingTimes : MattingCall(prev_frame, time)

SpecMatting == InitMatting /\ [][NextMatting]_vars

\* C19: for a RobustVideoMatting effect, in recurrent and in non-recurrent
\* mode and after any earlier calls, two calls with the same input frame at
\* times t1 and t2 with get_key(t1) = get_key(t2) return identical outputs.
C19_EqualKeysEqualOutputs ==
    \A x, y \in returned :
        (x.frame = y.frame /\ x.key = y.key) => x.dst = y.dst

(***************************************************************************)
(* Where the resized images of the cache come from.                        *)
(***************************************************************************)
\* The images a component's layer renders at a local time with the layer key,
\* resized to the scale.
ResizedByOwnLayer(component, layer_key, scale) ==
    {resize(LeafCall(component.layer, local), scale) :
        local \in {l \in (0 - MaxTime)..MaxTime :
                        ComponentGetKey(component, l) = layer_key}}

\* C20: after any sequence of add_layer, pop_layer and render, every buffer
\* _get_or_resize returns from the cache for a component was produced by resizing
\* an image rendered by that same component's layer, at a local time with the
\* same layer key and the same scale.
C20_ResizedImagesAreOwn ==
    \A i \in 1..Len(layers["A"]) : \A t \in Times :
        LET component == layers["A"][i]
            local == t - component.offset
            scale == component.transform.scale
            layer_key == ComponentGetKey(component, local)
            key == <<"LAYER", component.name, layer_key, scale>>
        IN  (~OutsideWindow(component, t) /\ CacheContains(cache["A"], key)) =>
                _get_or_resize("A", component, local, LeafCall(component.layer, local),
                               scale, NoTrace).image
                    \in ResizedByOwnLayer(component, layer_key, scale)

====
